---------------------------- MODULE Spec2Model ----------------------------
(***************************************************************************)
(* SplitTON: the transaction-extraction core (aiagent.py) as a state       *)
(* machine.  A caller invokes process_transaction; the call validates its  *)
(* input, normalises first-person pronouns, sends one request to the       *)
(* external reasoning capability, validates the answer and either returns  *)
(* a ParsedTransactions value or raises.                                   *)
(*                                                                         *)
(* Strings whose characters matter (texts, captions) are sequences of      *)
(* one-character strings; names and messages are plain strings.            *)
(***************************************************************************)
EXTENDS Integers, Sequences, FiniteSets, TLC

VARIABLES
    pc,               \* position of the call: "idle", "awaiting", "returned", "raised"
    input_type,       \* argument of process_transaction
    input_data,       \* argument of process_transaction (a tagged Python value)
    possible_friends, \* argument of process_transaction
    _API_KEY,         \* the module-level global
    env_key,          \* os.getenv("GEMINI_API_KEY")
    request,          \* the generate_content request in flight, or NoRequest
    invocations,      \* generate_content calls made by the current call
    response,         \* what generate_content produced, or NoResponse
    result,           \* the value returned to the caller, or NoResult
    error,            \* the exception raised to the caller, or NoError
    norm_pc,          \* "ready" before _preprocess_input has run, "done" after
    norm_in,          \* the string handed to _preprocess_input
    norm_out,         \* what _preprocess_input returned
    calls,            \* concurrent callers: the frame of each caller's call
    friends_table,             \* table friends, in row order
    transactions,              \* table transactions
    transaction_participants,  \* table transaction_participants
    transaction_items,         \* table transaction_items
    next_id,                   \* ids the database has handed out
    pending_txns,              \* context.user_data["pending_txns_<key>"], by key
    next_key,                  \* batch keys (uuid4) issued so far
    pending_friend_accept,     \* context.user_data["pending_friend_accept"]
    conversation,              \* state of friend_conv_handler for the user
    accept_rows,               \* history: friends rows inserted since Accept was pressed
    last_text,                 \* history: the text receive_nickname got last
    update,                    \* the update or request handled last
    reply,                     \* what the handler answered
    sent,                      \* notifications sent to other parties
    bot_possible_friends,      \* the list handle_input last passed to the core
    deleting,                  \* delete_transaction in progress, or NoDelete
    confirm_ran,               \* history: keys confirm_all has read pending data for
    cancelled,                 \* history: keys cancel_all has run for
    settled                    \* history: participant ids settle has succeeded for

vars == <<pc, input_type, input_data, possible_friends, _API_KEY, env_key,
          request, invocations, response, result, error,
          norm_pc, norm_in, norm_out, calls,
          friends_table, transactions, transaction_participants, transaction_items, next_id,
          pending_txns, next_key, pending_friend_accept, conversation, accept_rows,
          last_text, update, reply,
          sent, bot_possible_friends, deleting, confirm_ran, cancelled, settled>>

normVars == <<norm_pc, norm_in, norm_out>>

tableVars == <<transactions, transaction_participants, transaction_items, next_id>>

convVars == <<pending_friend_accept, conversation, accept_rows, last_text>>

botVars == <<friends_table, tableVars, pending_txns, next_key, convVars, update, reply, sent, bot_possible_friends, deleting,
             confirm_ran, cancelled, settled>>

coreVars == <<pc, input_type, input_data, possible_friends, _API_KEY, env_key,
              request, invocations, response, result, error>>

-----------------------------------------------------------------------------
(* Bounds                                                                  *)

MaxPieces == 3      \* pieces (words, separators) concatenated into a normalizer input
MaxTxns == 2        \* transaction records in a reasoning response
MaxExtracted == 2   \* names in a reasoning response's extracted_friends

-----------------------------------------------------------------------------
(* Characters                                                              *)

UpperCase == <<"A","B","C","D","E","F","G","H","I","J","K","L","M",
               "N","O","P","Q","R","S","T","U","V","W","X","Y","Z">>
LowerCase == <<"a","b","c","d","e","f","g","h","i","j","k","l","m",
               "n","o","p","q","r","s","t","u","v","w","x","y","z">>
Digits == {"0","1","2","3","4","5","6","7","8","9"}

Range(s) == {s[k] : k \in DOMAIN s}

UpperLetters == Range(UpperCase)
LowerLetters == Range(LowerCase)
WordChars == UpperLetters \cup LowerLetters \cup Digits \cup {"_"}

ToLower == [c \in UpperLetters |-> LowerCase[CHOOSE k \in DOMAIN UpperCase : UpperCase[k] = c]]
ToUpper == [c \in LowerLetters |-> UpperCase[CHOOSE k \in DOMAIN LowerCase : LowerCase[k] = c]]

\* re.IGNORECASE: characters are compared after case folding.
Lower(c) == IF c \in UpperLetters THEN ToLower[c] ELSE c

\* \w of the re module: letters, digits and the underscore.
IsWordChar(c) == c \in WordChars

\* str.strip() removes these from both ends.
IsSpace(c) == c \in {" ", "\t", "\n", "\r"}

-----------------------------------------------------------------------------
(* re.sub(r'\bWORD\b', repl, text, flags=re.IGNORECASE)                    *)

IsWordAt(text, p) == p >= 1 /\ p <= Len(text) /\ IsWordChar(text[p])

\* \b between positions p-1 and p: exactly one side is a word character.
WordBoundary(text, p) == IsWordAt(text, p - 1) # IsWordAt(text, p)

\* The same without re.IGNORECASE.
MatchesAt_case_sensitive(pat, text, i) ==
    /\ i + Len(pat) - 1 <= Len(text)
    /\ \A k \in 1..Len(pat) : text[i + k - 1] = pat[k]
    /\ WordBoundary(text, i)
    /\ WordBoundary(text, i + Len(pat))

\* The same without the \b anchors.
MatchesAt_substring(pat, text, i) ==
    /\ i + Len(pat) - 1 <= Len(text)
    /\ \A k \in 1..Len(pat) : Lower(text[i + k - 1]) = pat[k]

\* Does \bpat\b match at position i?  pat is written in lower case.
MatchesAt(pat, text, i) ==
    /\ i + Len(pat) - 1 <= Len(text)
    /\ \A k \in 1..Len(pat) : Lower(text[i + k - 1]) = pat[k]
    /\ WordBoundary(text, i)
    /\ WordBoundary(text, i + Len(pat))

RECURSIVE sub_from(_, _, _, _)
sub_from(pat, repl, text, i) ==
    IF i > Len(text) THEN <<>>
    ELSE IF MatchesAt(pat, text, i)
         THEN repl \o sub_from(pat, repl, text, i + Len(pat))
         ELSE <<text[i]>> \o sub_from(pat, repl, text, i + 1)

re_sub(pat, repl, text) == sub_from(pat, repl, text, 1)

You == <<"Y","o","u">>
Your == <<"Y","o","u","r">>

_preprocess_input(text) ==
    LET t1 == re_sub(<<"i">>, You, text)
        t2 == re_sub(<<"m","e">>, You, t1)
        t3 == re_sub(<<"m","y","s","e","l","f">>, You, t2)
        t4 == re_sub(<<"m","y">>, Your, t3)
    IN  t4

RECURSIVE lstrip(_)
lstrip(s) == IF s # <<>> /\ IsSpace(Head(s)) THEN lstrip(Tail(s)) ELSE s

RECURSIVE rstrip(_)
rstrip(s) ==
    IF s # <<>> /\ IsSpace(s[Len(s)]) THEN rstrip(SubSeq(s, 1, Len(s) - 1)) ELSE s

strip(s) == rstrip(lstrip(s))

-----------------------------------------------------------------------------
(* Python values, exceptions                                               *)

PyNone == "<None>"

\* Python truthiness of an Optional[str].
Truthy(v) == v # PyNone /\ v # ""

PyStr(chars) == [py |-> "str", val |-> chars]
PyTuple(elems) == [py |-> "tuple", val |-> elems]
PyList(elems) == [py |-> "list", val |-> elems]

NoError == [type |-> "None", msg |-> "", names |-> {}]
Err(type, msg) == [type |-> type, msg |-> msg, names |-> {}]
ErrNames(type, msg, names) == [type |-> type, msg |-> msg, names |-> names]

NoResult == [none |-> TRUE]
NoRequest == [none |-> TRUE]
NoResponse == [none |-> TRUE]

-----------------------------------------------------------------------------
(* The API key                                                             *)

ApiKeys == {"k1"}
EnvKeys == {PyNone, "envk"}

\* _get_api_key(): the key to use, or PyNone when it raises ValueError.
_get_api_key(api_key, env) ==
    IF Truthy(api_key) THEN api_key
    ELSE IF Truthy(env) THEN env
    ELSE PyNone

-----------------------------------------------------------------------------
(* The schema of a reasoning response                                      *)

\* CategoryEnum: <<member, value>>.
CategoryEnum ==
    {<<"FOOD", "Food">>, <<"TRANSPORTATION", "Transportation">>,
     <<"HOUSING", "Housing">>, <<"UTILITIES", "Utilities">>, <<"HEALTH", "Health">>,
     <<"ENTERTAINMENT", "Entertainment">>, <<"SHOPPING", "Shopping">>,
     <<"EDUCATION", "Education">>, <<"TRAVEL", "Travel">>, <<"OTHER", "Other">>}

CategoryValues == {m[2] : m \in CategoryEnum}

\* The keys of a TransactionInfo object.  A JSON record of a response carries
\* the set `present` of the keys it has; the value of an absent key is unused.
TransactionFields == {"from_friend", "to_friend", "item", "amount", "category"}

\* TransactionInfo whose fields other than the category are optional.
TransactionInfo_ok_optional_fields(r) ==
    /\ "category" \in r.present
    /\ r.category \in CategoryValues

\* TransactionInfo: every field is required (no Field has a default) and the
\* category must be the value of a CategoryEnum member.
TransactionInfo_ok(r) ==
    /\ TransactionFields \subseteq r.present
    /\ r.category \in CategoryValues

\* The validated record: the category becomes the enum member.
TransactionInfo(r) ==
    [from_friend |-> r.from_friend, to_friend |-> r.to_friend, item |-> r.item,
     amount |-> r.amount,
     category |-> (CHOOSE m \in CategoryEnum : m[2] = r.category)[1]]

\* ParsedTransactions.model_validate_json(response.text) succeeds.
ParsedTransactions_ok(resp) ==
    /\ resp.kind = "json"
    /\ \A k \in DOMAIN resp.transactions : TransactionInfo_ok(resp.transactions[k])

ParsedTransactions(resp) ==
    [transactions |->
        [k \in DOMAIN resp.transactions |-> TransactionInfo(resp.transactions[k])],
     extracted_friends |-> resp.extracted_friends]

\* Names are compared as Python strings; these are the spellings that differ
\* in letter case only.
casefold(name) == IF name \in {"Bob", "bob"} THEN "bob" ELSE name

\* _validate_friends that compares names without regard to letter case.
_validate_friends_caseless(extracted_friends, friends) ==
    LET invalid_friends ==
            {n \in Range(extracted_friends) :
                casefold(n) \notin {casefold(m) : m \in Range(friends)}}
    IN  IF invalid_friends # {}
        THEN ErrNames("ValueError", "Invalid friends detected", invalid_friends)
        ELSE IF extracted_friends = <<>>
             THEN Err("ValueError", "No valid friends extracted from input")
             ELSE NoError

\* _validate_friends that lets names outside the list pass.
_validate_friends_unchecked(extracted_friends, friends) ==
    IF extracted_friends = <<>>
    THEN Err("ValueError", "No valid friends extracted from input")
    ELSE NoError

\* _validate_friends without the check for an empty list.
_validate_friends_allows_empty(extracted_friends, friends) ==
    LET invalid_friends == Range(extracted_friends) \ Range(friends)
    IN  IF invalid_friends # {}
        THEN ErrNames("ValueError", "Invalid friends detected", invalid_friends)
        ELSE NoError

\* _validate_friends: the exception it raises, or NoError.
_validate_friends(extracted_friends, friends) ==
    LET invalid_friends == Range(extracted_friends) \ Range(friends)
    IN  IF invalid_friends # {}
        THEN ErrNames("ValueError", "Invalid friends detected", invalid_friends)
        ELSE IF extracted_friends = <<>>
             THEN Err("ValueError", "No valid friends extracted from input")
             ELSE NoError

-----------------------------------------------------------------------------
(* Inputs a caller can supply                                              *)

InputTypes == {"text", "image", "voice"}

\* Texts and captions: empty, whitespace only, and non-empty after trimming.
Texts == { <<>>, <<" ">>, <<" ", "\t">>, <<" ", "I", " ">> }
Captions == Texts

\* The files of the caller's file system, by path.
P_receipt == <<"r", ".", "j", "p", "e", "g">>
P_shot == <<"s", ".", "P", "N", "G">>
P_scan == <<"c", ".", "b", "m", "p">>
P_gone == <<"g", ".", "j", "p", "g">>
P_locked == <<"l", ".", "j", "p", "g">>

ImagePaths == {P_receipt, P_shot, P_scan, P_gone, P_locked}

\* What open(path, "rb") finds: a readable file, no file, or no permission.
FileStatus(path) ==
    IF path = P_gone THEN "missing"
    ELSE IF path = P_locked THEN "denied"
    ELSE "file"

\* The formats the code names a MIME type for.
SupportedSuffixes ==
    {<<".", "j", "p", "g">>, <<".", "j", "p", "e", "g">>, <<".", "p", "n", "g">>,
     <<".", "g", "i", "f">>, <<".", "w", "e", "b", "p">>}

InputData ==
    {PyStr(t) : t \in Texts}
    \cup {PyTuple(<<p, c>>) : p \in ImagePaths, c \in Captions}
    \cup {PyTuple(<<P_receipt, <<" ", "I", " ">>, <<" ", "I", " ">> >>),
          PyList(<<P_receipt, <<" ", "I", " ">> >>)}

Names == {"You", "Bob", "Zed"}

\* The participant lists a caller supplies.
FriendLists == { <<"You", "Bob">>, <<"You">>, <<"You", "bob">> }

-----------------------------------------------------------------------------
(* What the reasoning capability can answer                                *)

Record(f, t, a, c) ==
    [present |-> TransactionFields, from_friend |-> f, to_friend |-> t,
     item |-> "", amount |-> a, category |-> c]

\* Records that parse against TransactionInfo.
ValidRecords ==
    {Record("You", "Bob", 30, "Food"), Record("Bob", "You", 30, "Food"),
     Record("You", "You", 30, "Food"), Record("You", "Zed", 30, "Food"),
     Record("You", "Bob", 0, "Food"), Record("You", "Bob", 30, "Other")}

\* Records that do not: a category outside the enum, a missing category, a
\* missing from_friend, to_friend or amount.
MalformedRecords ==
    {Record("You", "Bob", 30, "Groceries"),
     [Record("You", "Bob", 30, "") EXCEPT !.present = TransactionFields \ {"category"}],
     [Record("", "Bob", 30, "Food") EXCEPT !.present = TransactionFields \ {"from_friend"}],
     [Record("You", "", 30, "Food") EXCEPT !.present = TransactionFields \ {"to_friend"}],
     [Record("You", "Bob", 0, "Food") EXCEPT !.present = TransactionFields \ {"amount"}]}

RawRecords == ValidRecords \cup MalformedRecords

SeqsUpTo(S, n) == UNION {[1..k -> S] : k \in 0..n}

Responses ==
    {[kind |-> "json", transactions |-> t, extracted_friends |-> f] :
        t \in SeqsUpTo(RawRecords, MaxTxns), f \in SeqsUpTo(Names, MaxExtracted)}
    \cup {[kind |-> k, transactions |-> <<>>, extracted_friends |-> <<>>] :
            k \in {"not_json", "api_error"}}

-----------------------------------------------------------------------------
(* parse_text_input, parse_image_input, process_transaction                *)

lower(s) == [k \in 1..Len(s) |-> Lower(s[k])]

endswith(s, suffix) ==
    /\ Len(s) >= Len(suffix)
    /\ SubSeq(s, Len(s) - Len(suffix) + 1, Len(s)) = suffix

RECURSIVE join(_, _)
join(sep, list) ==
    IF list = <<>> THEN <<>>
    ELSE IF Len(list) = 1 THEN list
    ELSE <<Head(list), sep>> \o join(sep, Tail(list))

\* The same test without the strip().
is_empty(s) == s = <<>>

\* "not s or not s.strip()"
is_blank(s) == s = <<>> \/ strip(s) = <<>>

\* open() whose failure is swallowed.
read_image_unchecked(image_path) == NoError

\* The try/except around open(): FileNotFoundError is raised again under the
\* code's own message, any other OSError propagates.
read_image(image_path) ==
    IF FileStatus(image_path) = "missing"
    THEN Err("FileNotFoundError", "Image file not found")
    ELSE IF FileStatus(image_path) = "denied"
         THEN Err("PermissionError", "Permission denied")
         ELSE NoError

mime_type(image_path) ==
    IF endswith(lower(image_path), <<".", "p", "n", "g">>) THEN "image/png"
    ELSE IF endswith(lower(image_path), <<".", "g", "i", "f">>) THEN "image/gif"
    ELSE IF endswith(lower(image_path), <<".", "w", "e", "b", "p">>) THEN "image/webp"
    ELSE "image/jpeg"

\* A step of a call ends by raising (error) or by invoking generate_content (request).
Raise(e) == [error |-> e, request |-> NoRequest]
Invoke(r) == [error |-> NoError, request |-> r]

\* Client creation and the generate_content request.
client_request(processed, friends, mime, image, api_key, env) ==
    IF _get_api_key(api_key, env) = PyNone
    THEN Raise(Err("ValueError", "API key not set"))
    ELSE Invoke([api_key |-> _get_api_key(api_key, env), model |-> "gemini-2.5-flash",
                 processed |-> processed, friends_str |-> join(", ", friends),
                 mime_type |-> mime, image |-> image])

\* parse_text_input up to the call of generate_content.
parse_text_input(text, friends, api_key, env) ==
    IF is_blank(text)
    THEN Raise(Err("ValueError", "Text input cannot be empty"))
    ELSE client_request(_preprocess_input(text), friends, PyNone, <<>>, api_key, env)

\* parse_image_input that opens the image before it looks at the caption.
parse_image_input_reads_first(image_path, caption, friends, api_key, env) ==
    IF read_image(image_path) # NoError
    THEN Raise(read_image(image_path))
    ELSE IF is_blank(caption)
         THEN Raise(Err("ValueError", "Caption is compulsory for image input"))
         ELSE client_request(_preprocess_input(caption), friends,
                             mime_type(image_path), image_path, api_key, env)

\* parse_image_input up to the call of generate_content.
parse_image_input(image_path, caption, friends, api_key, env) ==
    IF is_blank(caption)
    THEN Raise(Err("ValueError", "Caption is compulsory for image input"))
    ELSE IF read_image(image_path) # NoError
         THEN Raise(read_image(image_path))
         ELSE client_request(_preprocess_input(caption), friends,
                             mime_type(image_path), image_path, api_key, env)

\* process_transaction that takes the first two elements of a tuple of any length.
dispatch_any_tuple(it, data, friends, api_key, env) ==
    IF it = "text"
    THEN IF data.py # "str"
         THEN Raise(Err("ValueError", "For text input, input_data must be a string"))
         ELSE parse_text_input(data.val, friends, api_key, env)
    ELSE IF it = "image"
         THEN IF data.py # "tuple"
              THEN Raise(Err("ValueError",
                             "For image input, input_data must be a tuple of (image_path, caption)"))
              ELSE parse_image_input(data.val[1], data.val[2], friends, api_key, env)
         ELSE Raise(Err("ValueError", "Invalid input_type"))

\* process_transaction up to the call of generate_content.
dispatch(it, data, friends, api_key, env) ==
    IF it = "text"
    THEN IF data.py # "str"
         THEN Raise(Err("ValueError", "For text input, input_data must be a string"))
         ELSE parse_text_input(data.val, friends, api_key, env)
    ELSE IF it = "image"
         THEN IF data.py # "tuple" \/ Len(data.val) # 2
              THEN Raise(Err("ValueError",
                             "For image input, input_data must be a tuple of (image_path, caption)"))
              ELSE parse_image_input(data.val[1], data.val[2], friends, api_key, env)
         ELSE Raise(Err("ValueError", "Invalid input_type"))

\* The rest of parse_text_input / parse_image_input, once generate_content has
\* answered: model_validate_json, _validate_friends, return.
Return(v) == [error |-> NoError, result |-> v]
Fail(e) == [error |-> e, result |-> NoResult]

after_response(resp, friends) ==
    IF resp.kind = "api_error"
    THEN Fail(Err("APIError", "generate_content failed"))
    ELSE IF ~ParsedTransactions_ok(resp)
         THEN Fail(Err("ValidationError", "response does not match ParsedTransactions"))
         ELSE IF _validate_friends(ParsedTransactions(resp).extracted_friends, friends) # NoError
              THEN Fail(_validate_friends(ParsedTransactions(resp).extracted_friends, friends))
              ELSE Return(ParsedTransactions(resp))

\* Callers that use the module at the same time, and the frame of a caller
\* that is not inside process_transaction.
Callers == {"A", "B"}

IdleFrame ==
    [pc |-> "idle", input_type |-> PyNone, input_data |-> PyStr(<<>>),
     possible_friends |-> <<>>, request |-> NoRequest, response |-> NoResponse,
     result |-> NoResult, error |-> NoError]

NoCalls == [c \in Callers |-> IdleFrame]

\* The bot and the server before any update: empty tables but for the friends
\* rows given, nothing pending, no conversation.
NoUpdate == [handler |-> "none", arg |-> 0]
NoPending == [none |-> TRUE]
NoDelete == [none |-> TRUE]

BotStart(rows) ==
    /\ friends_table = rows
    /\ transactions = {}
    /\ transaction_participants = {}
    /\ transaction_items = {}
    /\ next_id = 0
    /\ pending_txns = <<>>
    /\ next_key = 0
    /\ pending_friend_accept = NoPending
    /\ conversation = "END"
    /\ accept_rows = 0
    /\ last_text = <<>>
    /\ update = NoUpdate
    /\ reply = ""
    /\ sent = {}
    /\ bot_possible_friends = <<>>
    /\ deleting = NoDelete
    /\ confirm_ran = {}
    /\ cancelled = {}
    /\ settled = {}

-----------------------------------------------------------------------------
(* Actions                                                                 *)

Init ==
    /\ pc = "idle"
    /\ input_type = PyNone
    /\ input_data = PyStr(<<>>)
    /\ possible_friends = <<>>
    /\ _API_KEY = PyNone
    /\ env_key \in EnvKeys
    /\ request = NoRequest
    /\ invocations = 0
    /\ response = NoResponse
    /\ result = NoResult
    /\ error = NoError
    /\ norm_pc = "ready"
    /\ norm_in = <<>>
    /\ norm_out = <<>>
    /\ calls = NoCalls
    /\ BotStart(<<>>)

\* set_api_key(api_key): any caller, at any time.
set_api_key ==
    /\ \E k \in ApiKeys : _API_KEY' = k
    /\ UNCHANGED <<pc, input_type, input_data, possible_friends, env_key, request,
                   invocations, response, result, error, normVars, calls, botVars>>

\* A caller calls process_transaction; the call runs until it raises or until
\* it has sent its request to the reasoning capability.
process_transaction ==
    /\ pc = "idle"
    /\ \E it \in InputTypes, data \in InputData, friends \in FriendLists :
         LET step == dispatch(it, data, friends, _API_KEY, env_key)
         IN  /\ input_type' = it
             /\ input_data' = data
             /\ possible_friends' = friends
             /\ error' = step.error
             /\ request' = step.request
             /\ pc' = IF step.error # NoError THEN "raised" ELSE "awaiting"
             /\ invocations' = IF step.error # NoError THEN 0 ELSE 1
    /\ response' = NoResponse
    /\ result' = NoResult
    /\ UNCHANGED <<_API_KEY, env_key, normVars, calls, botVars>>

\* A call that asks the reasoning capability again when the answer is unusable.
generate_content_returns_retrying ==
    /\ pc = "awaiting"
    /\ \E resp \in Responses :
         LET out == after_response(resp, possible_friends)
             again == out.error # NoError /\ invocations < 2
         IN  /\ response' = resp
             /\ result' = out.result
             /\ error' = IF again THEN NoError ELSE out.error
             /\ pc' = IF again THEN "awaiting"
                      ELSE IF out.error # NoError THEN "raised" ELSE "returned"
             /\ invocations' = IF again THEN invocations + 1 ELSE invocations
             /\ request' = IF again THEN request ELSE NoRequest
    /\ UNCHANGED <<input_type, input_data, possible_friends, _API_KEY, env_key, normVars, calls, botVars>>

\* generate_content answers (or fails) and the call finishes.
generate_content_returns ==
    /\ pc = "awaiting"
    /\ \E resp \in Responses :
         LET out == after_response(resp, possible_friends)
         IN  /\ response' = resp
             /\ result' = out.result
             /\ error' = out.error
             /\ pc' = IF out.error # NoError THEN "raised" ELSE "returned"
    /\ request' = NoRequest
    /\ UNCHANGED <<input_type, input_data, possible_friends, _API_KEY, env_key,
                   invocations, normVars, calls, botVars>>

\* The call is over: its frame is gone and the caller goes on.  Nothing of the
\* call is kept but the module-level key.
caller_continues ==
    /\ pc \in {"returned", "raised"}
    /\ pc' = "idle"
    /\ input_type' = PyNone
    /\ input_data' = PyStr(<<>>)
    /\ possible_friends' = <<>>
    /\ invocations' = 0
    /\ response' = NoResponse
    /\ result' = NoResult
    /\ error' = NoError
    /\ UNCHANGED <<_API_KEY, env_key, request, normVars, calls, botVars>>

Next ==
    \/ set_api_key
    \/ process_transaction
    \/ generate_content_returns
    \/ caller_continues

Spec == Init /\ [][Next]_vars

-----------------------------------------------------------------------------
(* The errors of the specification, as the code raises them                *)

EmptyInputError == Err("ValueError", "Text input cannot be empty")
MissingCaptionError == Err("ValueError", "Caption is compulsory for image input")

\* Both exceptions of _validate_friends.
IsInvalidParticipantError(e) ==
    /\ e.type = "ValueError"
    /\ e.msg \in {"Invalid friends detected", "No valid friends extracted from input"}

\* Whatever open() raises.
IsUnreadableImageError(e) == e.type \in {"FileNotFoundError", "PermissionError"}

\* The call has an answer of the reasoning capability that parsed against the schema.
Answered == pc \in {"returned", "raised"} /\ response # NoResponse
Parsed == Answered /\ ParsedTransactions_ok(response)

\* Every character is whitespace (so nothing is left after trimming).
OnlyWhitespace(s) == \A k \in DOMAIN s : IsSpace(s[k])

TextCall == pc # "idle" /\ input_type = "text" /\ input_data.py = "str"
ImageCall ==
    pc # "idle" /\ input_type = "image" /\ input_data.py = "tuple" /\ Len(input_data.val) = 2
image_path == input_data.val[1]
caption == input_data.val[2]

SupportedImage(path) == \E sfx \in SupportedSuffixes : endswith(lower(path), sfx)

-----------------------------------------------------------------------------
(* Claims about the call                                                   *)

\* C1: when the answer's extracted_friends has a name outside the supplied
\* list, the call raises the invalid-participant error, which names exactly the
\* names outside the list, and returns nothing.
C1_ValidationGate ==
    Parsed /\ Range(response.extracted_friends) \ Range(possible_friends) # {} =>
        /\ pc = "raised"
        /\ error = ErrNames("ValueError", "Invalid friends detected",
                            Range(response.extracted_friends) \ Range(possible_friends))
        /\ result = NoResult

\* A list with a valid and an invalid name: only the invalid one is reported.
C1_Witness ==
    /\ Parsed
    /\ response.extracted_friends = <<"You", "Zed">>
    /\ pc = "raised"
    /\ error.names = {"Zed"}

\* C2: in every returned result the from and the to of every record are in the
\* supplied participant list.
C2_RecordNamesInList ==
    pc = "returned" =>
        \A k \in DOMAIN result.transactions :
            /\ result.transactions[k].from_friend \in Range(possible_friends)
            /\ result.transactions[k].to_friend \in Range(possible_friends)

\* C3: an answer with no transaction and no referenced participant is returned
\* as the empty result, without error.
C3_EmptyResultValid ==
    Parsed /\ response.transactions = <<>> /\ response.extracted_friends = <<>> =>
        /\ pc = "returned"
        /\ error = NoError
        /\ result = [transactions |-> <<>>, extracted_friends |-> <<>>]

\* C4: an answer with transactions but an empty extracted_friends makes the
\* call raise the invalid-participant error and return nothing.
C4_EmptyReferencedFails ==
    Parsed /\ response.transactions # <<>> /\ response.extracted_friends = <<>> =>
        /\ pc = "raised"
        /\ IsInvalidParticipantError(error)
        /\ result = NoResult

C4_Witness ==
    /\ Parsed
    /\ Len(response.transactions) = 2
    /\ response.extracted_friends = <<>>
    /\ error = Err("ValueError", "No valid friends extracted from input")

\* C5: a text that is empty or only whitespace makes a text call raise the
\* empty-input error with no call of the reasoning capability; any other text
\* does not raise that error.
C5_EmptyText ==
    TextCall =>
        IF OnlyWhitespace(input_data.val)
        THEN /\ pc = "raised"
             /\ error = EmptyInputError
             /\ invocations = 0
             /\ request = NoRequest
        ELSE error # EmptyInputError

C5_Witness ==
    /\ TextCall
    /\ input_data.val = <<" ", "\t">>
    /\ error = EmptyInputError
    /\ invocations = 0

\* C6: an empty or whitespace-only caption makes an image call raise the
\* missing-caption error whatever the image is (present, missing, unreadable,
\* unsupported), with no call of the reasoning capability.
C6_MissingCaption ==
    ImageCall /\ OnlyWhitespace(caption) =>
        /\ pc = "raised"
        /\ error = MissingCaptionError
        /\ invocations = 0
        /\ request = NoRequest

\* A whitespace caption with an image file that does not exist.
C6_Witness ==
    /\ ImageCall
    /\ caption = <<" ">>
    /\ FileStatus(image_path) = "missing"
    /\ error = MissingCaptionError

\* C7 as stated: with a valid caption, an image that is missing, unreadable or
\* of an unsupported type makes the call raise the unreadable-image error
\* before the reasoning capability is invoked.
C7_UnsupportedRejected ==
    /\ ImageCall
    /\ ~OnlyWhitespace(caption)
    /\ (FileStatus(image_path) # "file" \/ ~SupportedImage(image_path))
    => /\ pc = "raised"
       /\ IsUnreadableImageError(error)
       /\ invocations = 0

\* C7 amended: with a valid caption, an image file that is missing or cannot
\* be opened makes the call raise (FileNotFoundError, or the error of open())
\* before the reasoning capability is invoked; the file type is not checked,
\* and a readable file of another type is sent labelled image/jpeg.
C7_UnopenableRejected ==
    ImageCall /\ ~OnlyWhitespace(caption) =>
        /\ FileStatus(image_path) # "file" =>
             /\ pc = "raised"
             /\ IsUnreadableImageError(error)
             /\ error.type = "FileNotFoundError" <=> FileStatus(image_path) = "missing"
             /\ invocations = 0
             /\ request = NoRequest
        /\ FileStatus(image_path) = "file" /\ pc = "awaiting" =>
             /\ request.image = image_path
             /\ ~SupportedImage(image_path) => request.mime_type = "image/jpeg"

C7_Witness ==
    /\ ImageCall
    /\ ~OnlyWhitespace(caption)
    /\ FileStatus(image_path) = "denied"
    /\ pc = "raised"
    /\ error.type = "PermissionError"

\* C8: a call invokes the reasoning capability at most once; once it has
\* answered, the call is over (returned or raised) and no request is in flight.
C8_SingleInvocation ==
    /\ invocations <= 1
    /\ response # NoResponse => pc \in {"returned", "raised"} /\ request = NoRequest
    /\ pc = "awaiting" => invocations = 1 /\ response = NoResponse

\* A malformed answer ended the call after one invocation.
C8_Witness ==
    /\ pc = "raised"
    /\ invocations = 1
    /\ error.type = "ValidationError"

-----------------------------------------------------------------------------
(* Claims about the returned records                                       *)

SamePair(r1, r2) ==
    {r1.from_friend, r1.to_friend} = {r2.from_friend, r2.to_friend}

\* C15: a returned result has, for each unordered pair of participants and
\* each category, at most one record, and no record from a participant to
\* the same participant.
C15_NoRedundantRecords ==
    pc = "returned" =>
        /\ \A k \in DOMAIN result.transactions :
             result.transactions[k].from_friend # result.transactions[k].to_friend
        /\ \A j, k \in DOMAIN result.transactions :
             j # k /\ SamePair(result.transactions[j], result.transactions[k])
                => result.transactions[j].category # result.transactions[k].category

\* C16: every record of a returned result has a strictly positive amount.
C16_PositiveAmounts ==
    pc = "returned" =>
        \A k \in DOMAIN result.transactions : result.transactions[k].amount > 0

\* The answer is well formed but for records that leave the category out.
OnlyCategoryUnspecified(resp) ==
    /\ resp.kind = "json"
    /\ \A k \in DOMAIN resp.transactions :
         \/ TransactionInfo_ok(resp.transactions[k])
         \/ resp.transactions[k].present = TransactionFields \ {"category"}
    /\ \E k \in DOMAIN resp.transactions : "category" \notin resp.transactions[k].present
    /\ resp.extracted_friends # <<>>
    /\ Range(resp.extracted_friends) \subseteq Range(possible_friends)

\* C17: a record whose category the answer leaves out is accepted and is
\* returned with the category Other.
C17_CategoryDefaultsToOther ==
    Answered /\ OnlyCategoryUnspecified(response) =>
        /\ pc = "returned"
        /\ Len(result.transactions) = Len(response.transactions)
        /\ \A k \in DOMAIN response.transactions :
             "category" \notin response.transactions[k].present
                => result.transactions[k].category = "OTHER"

\* The ten categories of the specification.
TenCategories ==
    {"Food", "Transportation", "Housing", "Utilities", "Health", "Entertainment",
     "Shopping", "Education", "Travel", "Other"}

\* The answer does not parse against the result schema: it is no JSON of that
\* shape, or a record lacks from, to or amount, or names a category outside
\* the ten.
SchemaViolation(resp) ==
    \/ resp.kind = "not_json"
    \/ /\ resp.kind = "json"
       /\ \E k \in DOMAIN resp.transactions :
            \/ {"from_friend", "to_friend", "amount"} \ resp.transactions[k].present # {}
            \/ /\ "category" \in resp.transactions[k].present
               /\ resp.transactions[k].category \notin TenCategories

\* C18: an answer that does not parse against the schema makes the call raise
\* the malformed-result error and return nothing; so every record of a
\* returned result has one of the ten categories.
C18_MalformedRejected ==
    /\ Answered /\ SchemaViolation(response) =>
         /\ pc = "raised"
         /\ error.type = "ValidationError"
         /\ result = NoResult
    /\ pc = "returned" =>
         \A k \in DOMAIN result.transactions :
            /\ response.transactions[k].category \in TenCategories
            /\ <<result.transactions[k].category, response.transactions[k].category>>
                  \in CategoryEnum

\* A record with the category Groceries beside a well-formed one.
C18_Witness ==
    /\ Answered
    /\ response.kind = "json"
    /\ Len(response.transactions) = 2
    /\ response.transactions[1].category = "Food"
    /\ response.transactions[2].category = "Groceries"
    /\ "category" \in response.transactions[2].present
    /\ pc = "raised"
    /\ error.type = "ValidationError"

\* The name differs from an entry of the list in letter case only, and is no entry.
CaseVariantOnly(n, friends) ==
    /\ n \notin Range(friends)
    /\ \E m \in Range(friends) : casefold(m) = casefold(n)

\* C20: a referenced name that matches an entry of the supplied list only up
\* to letter case is outside the list: the call raises the invalid-participant
\* error, which names it.
C20_CaseSensitiveNames ==
    Parsed /\ (\E n \in Range(response.extracted_friends) :
                    CaseVariantOnly(n, possible_friends)) =>
        /\ pc = "raised"
        /\ IsInvalidParticipantError(error)
        /\ result = NoResult
        /\ \A n \in Range(response.extracted_friends) :
              CaseVariantOnly(n, possible_friends) => n \in error.names

\* "Bob" referenced when the list holds "bob".
C20_Witness ==
    /\ Parsed
    /\ possible_friends = <<"You", "bob">>
    /\ response.extracted_friends = <<"You", "Bob">>
    /\ pc = "raised"
    /\ error.names = {"Bob"}

-----------------------------------------------------------------------------
(* Claims about malformed requests                                         *)

\* The request names no modality of the operation, or its payload is not of
\* the modality's type.
MalformedRequest ==
    /\ pc # "idle"
    /\ \/ input_type \notin {"text", "image"}
       \/ input_type = "text" /\ input_data.py # "str"
       \/ input_type = "image" /\ ~(input_data.py = "tuple" /\ Len(input_data.val) = 2)

\* The three ValueErrors of process_transaction itself.
IsRequestError(e) ==
    /\ e.type = "ValueError"
    /\ e.msg \in {"Invalid input_type", "For text input, input_data must be a string",
                  "For image input, input_data must be a tuple of (image_path, caption)"}

\* C22: a request with an input_type other than "text" or "image", a text
\* request whose payload is not a string, or an image request whose payload
\* is not a tuple of exactly two elements fails with process_transaction's
\* own ValueError: no parser ran (the error is none of theirs), no reasoning
\* call was made and nothing is returned.
C22_MalformedRequestRejected ==
    MalformedRequest =>
        /\ pc = "raised"
        /\ IsRequestError(error)
        /\ invocations = 0
        /\ request = NoRequest
        /\ response = NoResponse
        /\ result = NoResult

\* An image request with a tuple of three elements has been rejected.
C22_Witness ==
    /\ MalformedRequest
    /\ input_type = "image" /\ input_data.py = "tuple" /\ Len(input_data.val) = 3
    /\ pc = "raised"

-----------------------------------------------------------------------------
(* Several callers using the module at the same time.  Each call has its   *)
(* own frame; the module-level key and the environment are shared.         *)

\* The key each caller hands to set_api_key.
CallerKey(c) == IF c = "A" THEN "kA" ELSE "kB"

\* The calls the concurrent callers make, and the answers they get.
ConcurrentInputs ==
    { <<"text", PyStr(<<" ", "I", " ">>)>>, <<"text", PyStr(<<" ">>)>>,
      <<"image", PyTuple(<<P_receipt, <<" ", "I", " ">> >>)>> }

ConcurrentFriendLists == { <<"You", "Bob">>, <<"You">> }

ConcurrentResponses ==
    { r \in Responses :
        /\ r.transactions \in {<<>>, <<Record("You", "Bob", 30, "Food")>>}
        /\ Len(r.extracted_friends) <= 1 }

InitConcurrent == Init

\* set_api_key(api_key) by caller c: the module-level key is overwritten.
caller_set_api_key(c) ==
    /\ _API_KEY' = CallerKey(c)
    /\ UNCHANGED <<pc, input_type, input_data, possible_friends, env_key, request,
                   invocations, response, result, error, normVars, calls, botVars>>

\* Caller c calls process_transaction; client creation reads the module-level
\* key as it is at that moment.
caller_process_transaction(c) ==
    /\ calls[c].pc = "idle"
    /\ \E in \in ConcurrentInputs, friends \in ConcurrentFriendLists :
         LET step == dispatch(in[1], in[2], friends, _API_KEY, env_key)
         IN  calls' = [calls EXCEPT ![c] =
                         [pc |-> IF step.error # NoError THEN "raised" ELSE "awaiting",
                          input_type |-> in[1], input_data |-> in[2],
                          possible_friends |-> friends, request |-> step.request,
                          response |-> NoResponse, result |-> NoResult,
                          error |-> step.error]]
    /\ UNCHANGED <<coreVars, normVars, botVars>>

\* A call whose answer is validated against the participant list of another
\* call in progress, as if the list were kept in the module.
caller_generate_content_returns_crosstalk(c) ==
    /\ calls[c].pc = "awaiting"
    /\ \E resp \in ConcurrentResponses :
         LET other == CHOOSE d \in Callers : d # c
             friends == IF calls[other].pc # "idle"
                        THEN calls[other].possible_friends
                        ELSE calls[c].possible_friends
             out == after_response(resp, friends)
         IN  calls' = [calls EXCEPT ![c] =
                         [@ EXCEPT !.pc = IF out.error # NoError THEN "raised" ELSE "returned",
                                   !.request = NoRequest, !.response = resp,
                                   !.result = out.result, !.error = out.error]]
    /\ UNCHANGED <<coreVars, normVars, botVars>>

\* generate_content answers caller c's request and c's call finishes.
caller_generate_content_returns(c) ==
    /\ calls[c].pc = "awaiting"
    /\ \E resp \in ConcurrentResponses :
         LET out == after_response(resp, calls[c].possible_friends)
         IN  calls' = [calls EXCEPT ![c] =
                         [@ EXCEPT !.pc = IF out.error # NoError THEN "raised" ELSE "returned",
                                   !.request = NoRequest, !.response = resp,
                                   !.result = out.result, !.error = out.error]]
    /\ UNCHANGED <<coreVars, normVars, botVars>>

\* Caller c's call is over and its frame is gone.
caller_returns(c) ==
    /\ calls[c].pc \in {"returned", "raised"}
    /\ calls' = [calls EXCEPT ![c] = IdleFrame]
    /\ UNCHANGED <<coreVars, normVars, botVars>>

NextConcurrent ==
    \E c \in Callers :
        \/ caller_set_api_key(c)
        \/ caller_process_transaction(c)
        \/ caller_generate_content_returns(c)
        \/ caller_returns(c)

SpecConcurrent == InitConcurrent /\ [][NextConcurrent]_vars

\* Two callers made the same call: same modality, input and participant list.
SameCall(c, d) ==
    /\ calls[c].input_type = calls[d].input_type
    /\ calls[c].input_data = calls[d].input_data
    /\ calls[c].possible_friends = calls[d].possible_friends

InFlight(c) == calls[c].pc = "awaiting"
Unanswered(c) == calls[c].pc # "idle" /\ calls[c].response = NoResponse
Finished(c) == calls[c].pc \in {"returned", "raised"} /\ calls[c].response # NoResponse

MissingKeyError == Err("ValueError", "API key not set")
WithoutKey(req) == [req EXCEPT !.api_key = PyNone]

\* Same call and same answer give the same outcome.
SameAnswerSameOutcome ==
    \A c, d \in Callers :
        Finished(c) /\ Finished(d) /\ SameCall(c, d)
          /\ calls[c].response = calls[d].response =>
            /\ calls[c].pc = calls[d].pc
            /\ calls[c].result = calls[d].result
            /\ calls[c].error = calls[d].error

\* C19: concurrent process calls are fully independent: whatever the other
\* callers do in between, two calls with the same arguments use the same
\* configuration (they send the same request or fail the same way before
\* sending one), and with the same reasoning response they have the same
\* outcome.
C19_FullyIndependent ==
    /\ \A c, d \in Callers :
         Unanswered(c) /\ Unanswered(d) /\ SameCall(c, d) =>
            /\ calls[c].error = calls[d].error
            /\ calls[c].request = calls[d].request
    /\ SameAnswerSameOutcome

\* C19 (amended): concurrent calls share the module-level key and nothing
\* else.  Two calls with the same arguments differ before the answer only
\* in the key their request carries, which is a key some caller set or the
\* environment's, or in one of them failing for want of a key; with the
\* same reasoning response they have the same outcome.
C19_IndependentButForKey ==
    /\ \A c, d \in Callers :
         Unanswered(c) /\ Unanswered(d) /\ SameCall(c, d) =>
            \/ MissingKeyError \in {calls[c].error, calls[d].error}
            \/ /\ calls[c].error = calls[d].error
               /\ InFlight(c) =>
                    /\ InFlight(d)
                    /\ WithoutKey(calls[c].request) = WithoutKey(calls[d].request)
    /\ \A c \in Callers :
         InFlight(c) =>
            /\ calls[c].request.api_key \in {CallerKey(d) : d \in Callers} \cup {env_key}
            /\ calls[c].request.api_key # PyNone
    /\ SameAnswerSameOutcome

\* Both callers are in the same call at once, each with the key the other set.
C19_Witness ==
    /\ InFlight("A") /\ InFlight("B") /\ SameCall("A", "B")
    /\ calls["A"].request.api_key = CallerKey("B")
    /\ calls["B"].request.api_key = CallerKey("A")

-----------------------------------------------------------------------------
(* The normalizer on its own: _preprocess_input applied to one string      *)

\* Words and separators the inputs are concatenated from.
Pieces ==
    { <<"I">>, <<"i">>, <<"m","e">>, <<"M","E">>, <<"m","y">>, <<"M","y">>,
      <<"m","y","s","e","l","f">>, <<"M","y","S","e","l","f">>,
      <<"h","i","m">>, <<"m","y","s","t","e","r","y">>,
      <<" ">>, <<"'">>, <<"_">> }

RECURSIVE Concat(_)
Concat(ps) == IF ps = <<>> THEN <<>> ELSE Head(ps) \o Concat(Tail(ps))

Example_in ==
    <<"I"," ","p","a","i","d"," ","f","o","r"," ","m","y"," ","f","r","i","e","n","d">>
Example_out ==
    <<"Y","o","u"," ","p","a","i","d"," ","f","o","r"," ",
      "Y","o","u","r"," ","f","r","i","e","n","d">>
Substrings_in ==
    <<"h","i","m"," ","m","a","i","n",","," ","t","i","m","e","!">>

NormInputs ==
    {Concat(ps) : ps \in SeqsUpTo(Pieces, MaxPieces)} \cup {Example_in, Substrings_in}

InitNorm ==
    /\ pc = "idle"
    /\ input_type = PyNone
    /\ input_data = PyStr(<<>>)
    /\ possible_friends = <<>>
    /\ _API_KEY = PyNone
    /\ env_key = PyNone
    /\ request = NoRequest
    /\ invocations = 0
    /\ response = NoResponse
    /\ result = NoResult
    /\ error = NoError
    /\ norm_pc = "ready"
    /\ norm_in \in NormInputs
    /\ norm_out = <<>>
    /\ calls = NoCalls
    /\ BotStart(<<>>)

preprocess_input ==
    /\ norm_pc = "ready"
    /\ norm_out' = _preprocess_input(norm_in)
    /\ norm_pc' = "done"
    /\ UNCHANGED <<norm_in, coreVars, calls, botVars>>

NextNorm == preprocess_input

SpecNorm == InitNorm /\ [][NextNorm]_vars

-----------------------------------------------------------------------------
(* Words of a string: maximal runs of word characters; everything between  *)
(* two words is a separator.                                               *)

RunEnd(text, i) ==
    CHOOSE j \in i..Len(text) :
        /\ \A k \in i..j : IsWordChar(text[k]) = IsWordChar(text[i])
        /\ j = Len(text) \/ IsWordChar(text[j + 1]) # IsWordChar(text[i])

RECURSIVE SegmentsFrom(_, _)
SegmentsFrom(text, i) ==
    IF i > Len(text) THEN <<>>
    ELSE LET j == RunEnd(text, i)
         IN  <<SubSeq(text, i, j)>> \o SegmentsFrom(text, j + 1)

Segments(text) == SegmentsFrom(text, 1)

UpperOf(c) == IF c \in LowerLetters THEN ToUpper[c] ELSE c

\* seg is the word w (given in lower case) in some letter case.
IsWordIgnoringCase(seg, w) ==
    /\ Len(seg) = Len(w)
    /\ \A k \in 1..Len(w) : seg[k] \in {w[k], UpperOf(w[k])}

IsYouPronoun(seg) ==
    \/ IsWordIgnoringCase(seg, <<"i">>)
    \/ IsWordIgnoringCase(seg, <<"m","e">>)
    \/ IsWordIgnoringCase(seg, <<"m","y","s","e","l","f">>)

IsYourPronoun(seg) == IsWordIgnoringCase(seg, <<"m","y">>)

\* C9: every whole-word occurrence of I, me or myself, in any letter case, is
\* replaced by You and every whole-word occurrence of my by Your; the input
\* "I paid for my friend" becomes "You paid for Your friend".
C9_Substitution ==
    norm_pc = "done" =>
        LET a == Segments(norm_in)
            b == Segments(norm_out)
        IN  /\ \A k \in DOMAIN a :
                 /\ IsYouPronoun(a[k]) => k \in DOMAIN b /\ b[k] = You
                 /\ IsYourPronoun(a[k]) => k \in DOMAIN b /\ b[k] = Your
            /\ norm_in = Example_in => norm_out = Example_out

\* An upper-case "ME" and a mixed-case "My" have both been replaced.
C9_Witness ==
    /\ norm_pc = "done"
    /\ norm_in = <<"M","E"," ","M","y">>
    /\ norm_out = <<"Y","o","u"," ","Y","o","u","r">>

\* C10: the normalizer changes nothing but whole-word pronouns: the output has
\* the same words and separators in the same order, and every word that is not
\* a pronoun (him, main, time, mystery, my_I, ...) and every separator is unchanged.
C10_Frame ==
    norm_pc = "done" =>
        LET a == Segments(norm_in)
            b == Segments(norm_out)
        IN  /\ Len(b) = Len(a)
            /\ \A k \in DOMAIN a :
                 ~IsYouPronoun(a[k]) /\ ~IsYourPronoun(a[k]) => b[k] = a[k]

\* "him" next to a replaced "I": the pronoun changed, the word containing "i" did not.
C10_Witness ==
    /\ norm_pc = "done"
    /\ norm_in = <<"h","i","m"," ","I">>
    /\ norm_out = <<"h","i","m"," ","Y","o","u">>

-----------------------------------------------------------------------------
(* The bot (bot.py) and the mini-app server (server.py) over the database  *)

MaxBatches == 1     \* batches handle_input stores (keys issued)
MaxIds == 6         \* rows the database creates (ids handed out)
MaxFriendRows == 2  \* rows of table friends

RECURSIVE Str(_)
Str(chars) == IF chars = <<>> THEN "" ELSE Head(chars) \o Str(Tail(chars))

\* The spellings of the names the bot meets.
Spellings ==
    { <<"Y","o","u">>, <<"B","o","b">>, <<"b","o","b">>, <<"C","a","t">>, <<"Z","e","d">> }

Chars(name) == CHOOSE s \in Spellings : Str(s) = name

\* Table profiles: the owner, a friend with a Telegram account, and a friend
\* whose profile was created without one (telegram_id 0).
NoProfile == [none |-> TRUE]
Owner == [id |-> "u1", telegram_id |-> 1, email |-> "u1@x"]
Profiles ==
    { Owner,
      [id |-> "u2", telegram_id |-> 2, email |-> "u2@x"],
      [id |-> "u3", telegram_id |-> 0, email |-> "u3@x"] }
Strangers == {7}

get_profile_by_telegram_id(telegram_id) ==
    IF \E p \in Profiles : p.telegram_id = telegram_id
    THEN CHOOSE p \in Profiles : p.telegram_id = telegram_id
    ELSE NoProfile

get_friends_for_owner(owner_profile_id) ==
    SelectSeq(friends_table, LAMBDA r : r.user_id = owner_profile_id)

\* "nickname ILIKE name" for names without the wildcards % and _.
ilike(nickname, name) == lower(Chars(nickname)) = lower(Chars(name))

\* The profile id a name of a record stands for, or PyNone.  The names of
\* the model are no integers, so the fallback by telegram_id finds nothing.
resolve_name_to_profile_id(owner_profile_id, name, telegram_from_id) ==
    IF Str(lower(strip(Chars(name)))) \in {"you", "me", "yourself"}
    THEN IF get_profile_by_telegram_id(telegram_from_id) # NoProfile
         THEN get_profile_by_telegram_id(telegram_from_id).id
         ELSE PyNone
    ELSE LET rows == SelectSeq(get_friends_for_owner(owner_profile_id),
                               LAMBDA r : ilike(r.nickname, name))
         IN  IF rows # <<>> THEN rows[1].friend_user_id ELSE PyNone

\* The telegram_id of a profile; 0 stands for None (both are falsy).
get_telegram_id_from_profile_id(profile_id) ==
    IF \E p \in Profiles : p.id = profile_id /\ p.telegram_id # 0
    THEN (CHOOSE p \in Profiles : p.id = profile_id).telegram_id
    ELSE 0

\* The friends rows of the owner in the transaction scenarios.
FriendRow(user, friend, nickname) ==
    [user_id |-> user, friend_user_id |-> friend, nickname |-> nickname]

OwnersFriends == << FriendRow("u1", "u2", "Bob"), FriendRow("u1", "u3", "Cat") >>

\* The database as the handlers see it.
DB ==
    [transactions |-> transactions, transaction_participants |-> transaction_participants,
     transaction_items |-> transaction_items, next_id |-> next_id]

\* What the reasoning capability answers the bot's requests.
BotResponses ==
    { [kind |-> "json", extracted_friends |-> <<"You", "Bob">>,
       transactions |-> <<Record("Bob", "You", 30, "Food")>>],
      [kind |-> "json", extracted_friends |-> <<"You", "Bob", "Cat">>,
       transactions |-> <<Record("You", "Bob", 30, "Food"), Record("Cat", "Bob", 30, "Food")>>],
      [kind |-> "json", extracted_friends |-> <<"You", "Bob">>,
       transactions |-> <<Record("You", "Bob", 30, "Food"), Record("You", "Zed", 30, "Food")>>],
      [kind |-> "json", extracted_friends |-> <<"You">>, transactions |-> <<>>],
      [kind |-> "json", extracted_friends |-> <<"Zed">>, transactions |-> <<>>] }

\* The messages a user sends the bot.
P_tmp == <<"t", ".", "j", "p", "g">>
Messages ==
    { [kind |-> "text", text |-> <<" ", "I", " ">>],
      [kind |-> "photo", text |-> <<" ", "I", " ">>],
      [kind |-> "photo", text |-> <<>>],
      [kind |-> "voice", text |-> <<" ", "I", " ">>],
      [kind |-> "voice", text |-> <<>>],
      [kind |-> "sticker", text |-> <<>>] }

\* What handle_input does with a message: the reply, whether it called the
\* core, and the batch it stores (if any).
Outcome(text, called, batch, source) ==
    [reply |-> text, called |-> called, batch |-> batch, source_type |-> source]

\* The call of process_transaction handle_input makes for a message, as
\* <<input_type, input_data, source_type>>, or <<>> when it makes none.
core_arguments(msg) ==
    IF msg.kind = "text" THEN <<"text", PyStr(msg.text), "text">>
    ELSE IF msg.kind = "photo" /\ msg.text # <<>>
    THEN <<"image", PyTuple(<<P_tmp, msg.text>>), "image">>
    ELSE IF msg.kind = "voice" THEN <<"text", PyStr(msg.text), "voice">>
    ELSE <<>>

\* handle_input for a message that leads to no call of the core.
without_core(msg) ==
    IF msg.kind = "photo"
    THEN Outcome("add_caption", FALSE, <<>>, "text")
    ELSE Outcome("", FALSE, <<>>, "text")

\* handle_input once process_transaction has raised e or returned parsed.
with_core(msg, e, parsed) ==
    IF e # NoError
    THEN Outcome(IF msg.kind = "voice" THEN "transcribe_failed" ELSE "error",
                 TRUE, <<>>, "text")
    ELSE IF parsed.transactions = <<>>
    THEN Outcome("invalid_or_none", TRUE, <<>>, "text")
    ELSE Outcome("confirm", TRUE, parsed.transactions, core_arguments(msg)[3])

\* The outcomes of handle_input for a message of a registered user: one when
\* the core is not called or raises before the reasoning call, else one for
\* each answer of the reasoning capability.
handle_message(msg, friends) ==
    IF core_arguments(msg) = <<>>
    THEN {without_core(msg)}
    ELSE LET step == dispatch(core_arguments(msg)[1], core_arguments(msg)[2],
                              friends, _API_KEY, env_key)
         IN  IF step.error # NoError
             THEN {with_core(msg, step.error, NoResult)}
             ELSE { with_core(msg, out.error, out.result) :
                    out \in {after_response(resp, friends) : resp \in BotResponses} }

\* friend_conv_handler is in state AWAITING_NICKNAME for the user: the
\* conversation is the one of the user who pressed Accept.
in_conversation(telegram_id) ==
    /\ conversation = "AWAITING_NICKNAME"
    /\ pending_friend_accept # NoPending
    /\ pending_friend_accept.chat_id = telegram_id

\* The list handle_input builds for the owner.
build_possible_friends(owner_profile_id) ==
    <<"You">> \o [k \in DOMAIN get_friends_for_owner(owner_profile_id) |->
                     get_friends_for_owner(owner_profile_id)[k].nickname]

\* handle_input that records the extracted transactions at once.
handle_input_recording ==
    /\ deleting = NoDelete
    /\ \E msg \in Messages :
       \E out \in handle_message(msg, build_possible_friends(Owner.id)) :
             /\ out.batch # <<>>
             /\ next_key < MaxBatches /\ next_id < MaxIds
             /\ next_key' = next_key + 1
             /\ transactions' = transactions \cup
                    {[id |-> next_id + 1, creator_id |-> Owner.id,
                      source_type |-> out.source_type, total_amount |-> out.batch[1].amount,
                      origin |-> <<next_key + 1, 1>>]}
             /\ next_id' = next_id + 1
             /\ update' = [handler |-> "handle_input", arg |-> next_key + 1]
             /\ reply' = "confirm"
             /\ bot_possible_friends' = build_possible_friends(Owner.id)
    /\ UNCHANGED <<coreVars, normVars, calls, friends_table, transaction_participants,
                   transaction_items, pending_txns, convVars,
                   sent, deleting, confirm_ran, cancelled, settled>>

\* handle_input: a message that is no command and that the nickname
\* conversation does not take.
handle_input ==
    /\ deleting = NoDelete
    /\ \/ /\ \E telegram_from_id \in Strangers :
                get_profile_by_telegram_id(telegram_from_id) = NoProfile
          /\ reply' = "no_account"
          /\ update' = [handler |-> "handle_input", arg |-> 0]
          /\ UNCHANGED <<pending_txns, next_key, bot_possible_friends>>
       \/ \E msg \in Messages :
            LET telegram_from_id == Owner.telegram_id
                owner_profile_id == get_profile_by_telegram_id(telegram_from_id).id
                possible == build_possible_friends(owner_profile_id)
            IN  /\ in_conversation(telegram_from_id) => msg.kind # "text"
                /\ \E out \in handle_message(msg, possible) :
                     /\ bot_possible_friends' =
                            IF out.called THEN possible ELSE bot_possible_friends
                     /\ IF out.batch # <<>>
                        THEN /\ next_key < MaxBatches
                             /\ next_key' = next_key + 1
                             /\ pending_txns' = pending_txns @@
                                    (next_key + 1 :>
                                        [transactions |-> out.batch,
                                         source_type |-> out.source_type,
                                         owner_profile_id |-> owner_profile_id,
                                         telegram_from_id |-> telegram_from_id])
                             /\ update' = [handler |-> "handle_input", arg |-> next_key + 1]
                        ELSE /\ update' = [handler |-> "handle_input", arg |-> 0]
                             /\ UNCHANGED <<pending_txns, next_key>>
                     /\ reply' = out.reply
    /\ UNCHANGED <<coreVars, normVars, calls, friends_table, tableVars,
                   convVars, sent, deleting,
                   confirm_ran, cancelled, settled>>

\* The value of a CategoryEnum member.
category_value(member) == (CHOOSE m \in CategoryEnum : m[1] = member)[2]

\* Where an insert may fail: nowhere, or at the insert into one table for the
\* i-th transaction of the batch.
Tables == {"transactions", "transaction_participants", "transaction_items"}
NoFailure == <<0, "none">>
Failures == {NoFailure} \cup ((1..MaxTxns) \X Tables)

Inserted(db, e, id) == [db |-> db, error |-> e, txn_id |-> id]

\* insert_transaction_and_children: three inserts, each of which may raise.
\* origin tells which pending transaction the rows record; it is no column.
insert_transaction_and_children(db, creator_profile_id, source_type, txn_info, telegram_from_id, origin, failing) ==
    LET payer_profile_id ==
            resolve_name_to_profile_id(creator_profile_id, txn_info.from_friend, telegram_from_id)
        payee_profile_id ==
            resolve_name_to_profile_id(creator_profile_id, txn_info.to_friend, telegram_from_id)
        txn_id == db.next_id + 1
        participant_id == db.next_id + 2
        item_id == db.next_id + 3
        db1 == [db EXCEPT !.next_id = txn_id,
                          !.transactions = @ \cup
                              {[id |-> txn_id, creator_id |-> creator_profile_id,
                                source_type |-> source_type,
                                total_amount |-> txn_info.amount, origin |-> origin]}]
        db2 == [db1 EXCEPT !.next_id = participant_id,
                           !.transaction_participants = @ \cup
                              {[id |-> participant_id, transaction_id |-> txn_id,
                                payer_id |-> payer_profile_id, payee_id |-> payee_profile_id,
                                amount |-> txn_info.amount, status |-> "pending"]}]
        db3 == [db2 EXCEPT !.next_id = item_id,
                           !.transaction_items = @ \cup
                              {[id |-> item_id, participant_id |-> participant_id,
                                item_price |-> txn_info.amount,
                                category |-> category_value(txn_info.category)]}]
    IN  IF payer_profile_id = PyNone \/ payee_profile_id = PyNone
        THEN Inserted(db, Err("ValueError", "Could not resolve payer/payee"), 0)
        ELSE IF failing = "transactions"
        THEN Inserted(db, Err("RuntimeError", "DB error inserting transaction"), 0)
        ELSE IF failing = "transaction_participants"
        THEN Inserted(db1, Err("RuntimeError", "DB error inserting participant"), 0)
        ELSE IF failing = "transaction_items"
        THEN Inserted(db2, Err("RuntimeError", "DB error inserting transaction item"), 0)
        ELSE Inserted(db3, NoError, txn_id)

\* The loop of confirm_all_callback over the batch, from its i-th transaction:
\* it stops at the first insert that raises.
RECURSIVE insert_each(_, _, _, _, _, _)
insert_each(db, pending_data, key, i, failing, inserted_txns) ==
    IF i > Len(pending_data.transactions)
    THEN [db |-> db, error |-> NoError, inserted_txns |-> inserted_txns]
    ELSE LET one == insert_transaction_and_children(
                        db, pending_data.owner_profile_id, pending_data.source_type,
                        pending_data.transactions[i], pending_data.telegram_from_id,
                        <<key, i>>,
                        IF failing[1] = i THEN failing[2] ELSE "none")
         IN  IF one.error # NoError
             THEN [db |-> one.db, error |-> one.error, inserted_txns |-> inserted_txns]
             ELSE insert_each(one.db, pending_data, key, i + 1, failing,
                              Append(inserted_txns,
                                     [id |-> one.txn_id,
                                      txn_info |-> pending_data.transactions[i]]))

\* The chats confirm_all_callback notifies about one inserted transaction.
notified_parties(owner_profile_id, txn_info, telegram_from_id) ==
    LET payer_profile_id ==
            resolve_name_to_profile_id(owner_profile_id, txn_info.from_friend, telegram_from_id)
        payee_profile_id ==
            resolve_name_to_profile_id(owner_profile_id, txn_info.to_friend, telegram_from_id)
    IN  IF payer_profile_id = PyNone \/ payee_profile_id = PyNone
        THEN {}
        ELSE { t \in {get_telegram_id_from_profile_id(payer_profile_id),
                      get_telegram_id_from_profile_id(payee_profile_id)} :
                 t # 0 /\ t # telegram_from_id }

notifications(pending_data, inserted_txns) ==
    UNION { { [chat_id |-> t, transaction_id |-> inserted_txns[k].id] :
                t \in notified_parties(pending_data.owner_profile_id,
                                       inserted_txns[k].txn_info,
                                       pending_data.telegram_from_id) } :
            k \in DOMAIN inserted_txns }

without(user_data, key) == [k \in DOMAIN user_data \ {key} |-> user_data[k]]

\* cancel_all_callback that keeps the pending entry.
cancel_all_callback_keeps ==
    /\ deleting = NoDelete
    /\ \E key \in 1..next_key :
         /\ update' = [handler |-> "cancel_all", arg |-> key]
         /\ cancelled' = cancelled \cup {key}
    /\ reply' = "cancelled"
    /\ UNCHANGED <<coreVars, normVars, calls, friends_table, tableVars, pending_txns,
                   next_key, convVars, sent,
                   bot_possible_friends, deleting, confirm_ran, settled>>

\* cancel_all_callback: the creator pressed Cancel All under a batch.
cancel_all_callback ==
    /\ deleting = NoDelete
    /\ \E key \in 1..next_key :
         /\ pending_txns' = without(pending_txns, key)
         /\ update' = [handler |-> "cancel_all", arg |-> key]
         /\ cancelled' = cancelled \cup {key}
    /\ reply' = "cancelled"
    /\ UNCHANGED <<coreVars, normVars, calls, friends_table, tableVars,
                   next_key, convVars, sent,
                   bot_possible_friends, deleting, confirm_ran, settled>>

\* confirm_all_callback: the creator pressed Confirm All under a batch.
confirm_all_callback ==
    /\ deleting = NoDelete
    /\ \E key \in 1..next_key, failing \in Failures :
         /\ update' = [handler |-> "confirm_all", arg |-> key]
         /\ IF key \notin DOMAIN pending_txns
            THEN /\ failing = NoFailure
                 /\ reply' = "expired"
                 /\ UNCHANGED <<tableVars, pending_txns, sent, confirm_ran>>
            ELSE LET pending_data == pending_txns[key]
                     done == insert_each(DB, pending_data, key, 1, failing, <<>>)
                 IN  /\ failing[1] <= Len(pending_data.transactions)
                     /\ done.db.next_id <= MaxIds
                     /\ confirm_ran' = confirm_ran \cup {key}
                     /\ transactions' = done.db.transactions
                     /\ transaction_participants' = done.db.transaction_participants
                     /\ transaction_items' = done.db.transaction_items
                     /\ next_id' = done.db.next_id
                     /\ IF done.error # NoError
                        THEN /\ reply' = "error"
                             /\ UNCHANGED <<pending_txns, sent>>
                        ELSE /\ reply' = "recorded"
                             /\ sent' = sent \cup notifications(pending_data, done.inserted_txns)
                             /\ pending_txns' = without(pending_txns, key)
    /\ UNCHANGED <<coreVars, normVars, calls, friends_table, next_key,
                   convVars, bot_possible_friends,
                   deleting, cancelled, settled>>

\* The transactions a Reject button exists for: those a party was notified of.
RejectButtons == {n.transaction_id : n \in sent}

\* reject_transaction_callback up to the first delete of delete_transaction:
\* the transaction is looked up, then the ids of its participants are read.
reject_transaction_callback ==
    /\ deleting = NoDelete
    /\ \E transaction_id \in RejectButtons :
         /\ update' = [handler |-> "reject_txn", arg |-> transaction_id]
         /\ IF \A t \in transactions : t.id # transaction_id
            THEN /\ reply' = "not_found"
                 /\ UNCHANGED deleting
            ELSE /\ reply' = ""
                 /\ deleting' =
                       [transaction_id |-> transaction_id,
                        participant_ids |->
                            {p.id : p \in {q \in transaction_participants :
                                              q.transaction_id = transaction_id}},
                        stage |-> "transaction_items"]
    /\ UNCHANGED <<coreVars, normVars, calls, friends_table, tableVars, pending_txns,
                   next_key, convVars, sent,
                   bot_possible_friends, confirm_ran, cancelled, settled>>

\* delete_transaction that starts with the transactions row.
delete_transaction_items_parent_first ==
    /\ deleting # NoDelete
    /\ deleting.stage = "transaction_items"
    /\ transactions' = {t \in transactions : t.id # deleting.transaction_id}
    /\ deleting' = [deleting EXCEPT !.stage = "transaction_participants"]
    /\ UNCHANGED <<coreVars, normVars, calls, friends_table, transaction_participants,
                   transaction_items, next_id, pending_txns, next_key,
                   convVars, update, reply, sent,
                   bot_possible_friends, confirm_ran, cancelled, settled>>

\* delete_transaction, first loop: the items of one participant are deleted.
delete_transaction_items ==
    /\ deleting # NoDelete
    /\ deleting.stage = "transaction_items"
    /\ IF deleting.participant_ids = {}
       THEN /\ deleting' = [deleting EXCEPT !.stage = "transaction_participants"]
            /\ UNCHANGED transaction_items
       ELSE \E pid \in deleting.participant_ids :
               /\ transaction_items' = {i \in transaction_items : i.participant_id # pid}
               /\ deleting' = [deleting EXCEPT !.participant_ids = @ \ {pid}]
    /\ UNCHANGED <<coreVars, normVars, calls, friends_table, transactions,
                   transaction_participants, next_id, pending_txns, next_key,
                   convVars, update, reply, sent,
                   bot_possible_friends, confirm_ran, cancelled, settled>>

\* delete_transaction: the participants of the transaction are deleted.
delete_transaction_participants ==
    /\ deleting # NoDelete
    /\ deleting.stage = "transaction_participants"
    /\ transaction_participants' =
           {p \in transaction_participants : p.transaction_id # deleting.transaction_id}
    /\ deleting' = [deleting EXCEPT !.stage = "transactions"]
    /\ UNCHANGED <<coreVars, normVars, calls, friends_table, transactions,
                   transaction_items, next_id, pending_txns, next_key,
                   convVars, update, reply, sent,
                   bot_possible_friends, confirm_ran, cancelled, settled>>

\* delete_transaction: the transactions row is deleted and True is returned;
\* reject_transaction_callback answers and tells the creator.
delete_transaction ==
    /\ deleting # NoDelete
    /\ deleting.stage = "transactions"
    /\ transactions' = {t \in transactions : t.id # deleting.transaction_id}
    /\ deleting' = NoDelete
    /\ reply' = "rejected"
    /\ UNCHANGED <<coreVars, normVars, calls, friends_table, transaction_participants,
                   transaction_items, next_id, pending_txns, next_key,
                   convVars, update, sent,
                   bot_possible_friends, confirm_ran, cancelled, settled>>

\* delete_transaction: a database call raises, False is returned.
delete_transaction_raises ==
    /\ deleting # NoDelete
    /\ deleting' = NoDelete
    /\ reply' = "error_deleting"
    /\ UNCHANGED <<coreVars, normVars, calls, friends_table, tableVars, pending_txns,
                   next_key, convVars, update, sent,
                   bot_possible_friends, confirm_ran, cancelled, settled>>

\* settle_by_ton that takes a paid row back to pending.
settle_by_ton_toggles ==
    \E id \in {p.id : p \in transaction_participants} \cup {next_id + 1} :
        LET rows == {p \in transaction_participants : p.id = id}
        IN  /\ transaction_participants' =
                  (transaction_participants \ rows) \cup
                  {[p EXCEPT !.status = IF @ = "paid" THEN "pending" ELSE "paid"] : p \in rows}
            /\ update' = [handler |-> "settle", arg |-> id]
            /\ reply' = IF rows = {} THEN "settle_failed" ELSE "settled"
            /\ settled' = IF rows = {} THEN settled ELSE settled \cup {id}
            /\ UNCHANGED <<coreVars, normVars, calls, friends_table, transactions,
                           transaction_items, next_id, pending_txns, next_key,
                           convVars, sent,
                           bot_possible_friends, deleting, confirm_ran, cancelled>>

\* POST /settle/<transaction_participant_id>, from the mini app at any time.
settle_by_ton ==
    \E id \in {p.id : p \in transaction_participants} \cup {next_id + 1} :
        LET rows == {p \in transaction_participants : p.id = id}
        IN  /\ transaction_participants' =
                  (transaction_participants \ rows) \cup
                  {[p EXCEPT !.status = "paid"] : p \in rows}
            /\ update' = [handler |-> "settle", arg |-> id]
            /\ reply' = IF rows = {} THEN "settle_failed" ELSE "settled"
            /\ settled' = IF rows = {} THEN settled ELSE settled \cup {id}
            /\ UNCHANGED <<coreVars, normVars, calls, friends_table, transactions,
                           transaction_items, next_id, pending_txns, next_key,
                           convVars, sent,
                           bot_possible_friends, deleting, confirm_ran, cancelled>>

\* GET /settlements/<user_id>: the pending rows the user pays or is paid by.
settlements(user_id) ==
    {p \in transaction_participants :
        p.status = "pending" /\ (p.payer_id = user_id \/ p.payee_id = user_id)}

\* The bot is started with the key of its environment (set_api_key at import).
InitBot ==
    /\ pc = "idle"
    /\ input_type = PyNone
    /\ input_data = PyStr(<<>>)
    /\ possible_friends = <<>>
    /\ env_key \in EnvKeys
    /\ _API_KEY = env_key
    /\ request = NoRequest
    /\ invocations = 0
    /\ response = NoResponse
    /\ result = NoResult
    /\ error = NoError
    /\ norm_pc = "ready"
    /\ norm_in = <<>>
    /\ norm_out = <<>>
    /\ calls = NoCalls
    /\ BotStart(OwnersFriends)

\* Messages, and the buttons under the confirmation message.
NextBot ==
    \/ handle_input
    \/ confirm_all_callback
    \/ cancel_all_callback

SpecBot == InitBot /\ [][NextBot]_vars

\* The batches handle_input stores: the transactions of the answers.
BotBatches ==
    {ParsedTransactions(resp).transactions : resp \in BotResponses} \ {<<>>}

pending_data_of(batch) ==
    [transactions |-> batch, source_type |-> "text",
     owner_profile_id |-> Owner.id, telegram_from_id |-> Owner.telegram_id]

EmptyDB ==
    [transactions |-> {}, transaction_participants |-> {}, transaction_items |-> {},
     next_id |-> 0]

\* The ledger once the owner has sent a message and pressed Confirm All under
\* the answer: what confirm_all_callback made of the batch, a failure at any
\* insert included.
InitLedger ==
    /\ pc = "idle"
    /\ input_type = PyNone
    /\ input_data = PyStr(<<>>)
    /\ possible_friends = <<>>
    /\ env_key = "envk"
    /\ _API_KEY = env_key
    /\ request = NoRequest
    /\ invocations = 0
    /\ response = NoResponse
    /\ result = NoResult
    /\ error = NoError
    /\ norm_pc = "ready"
    /\ norm_in = <<>>
    /\ norm_out = <<>>
    /\ calls = NoCalls
    /\ friends_table = OwnersFriends
    /\ \E batch \in BotBatches, failing \in Failures :
         \E done \in {insert_each(EmptyDB, pending_data_of(batch), 1, 1, failing, <<>>)} :
             /\ failing[1] <= Len(batch)
             /\ transactions = done.db.transactions
             /\ transaction_participants = done.db.transaction_participants
             /\ transaction_items = done.db.transaction_items
             /\ next_id = done.db.next_id
             /\ sent = IF done.error = NoError
                       THEN notifications(pending_data_of(batch), done.inserted_txns)
                       ELSE {}
             /\ pending_txns = IF done.error = NoError
                               THEN <<>>
                               ELSE <<pending_data_of(batch)>>
             /\ reply = IF done.error = NoError THEN "recorded" ELSE "error"
    /\ next_key = 1
    /\ update = [handler |-> "confirm_all", arg |-> 1]
    /\ pending_friend_accept = NoPending
    /\ conversation = "END"
    /\ accept_rows = 0
    /\ last_text = <<>>
    /\ bot_possible_friends = <<"You", "Bob", "Cat">>
    /\ deleting = NoDelete
    /\ confirm_ran = {1}
    /\ cancelled = {}
    /\ settled = {}

\* Reject buttons under the notifications, and the mini app settling.
NextLedger ==
    \/ reject_transaction_callback
    \/ delete_transaction_items
    \/ delete_transaction_participants
    \/ delete_transaction
    \/ delete_transaction_raises
    \/ settle_by_ton

SpecLedger == InitLedger /\ [][NextLedger]_vars

-----------------------------------------------------------------------------
(* Friends: add_friend of the server, and the nickname conversation       *)

\* What the insert into table friends does: it returns the row, returns no
\* data, raises, or returns the row and a later call of the handler raises.
InsertOutcomes == {"ok", "no_data", "raises", "raises_after"}

\* The requests add_friend gets: e-mail and nickname, "" when missing.
FriendEmails == {"", "u2@x", "nobody@x"}
FriendNicknames == {"", "You", "Bob"}

\* add_friend of the server: the nickname is stored as given.
add_friend ==
    /\ \E user_id \in {Owner.id}, friend_email \in FriendEmails,
          nickname \in FriendNicknames, outcome \in InsertOutcomes \ {"raises_after"} :
         LET friend_resp == {p \in Profiles : p.email = friend_email}
         IN  IF friend_email = "" \/ nickname = ""
             THEN /\ outcome = "ok"
                  /\ reply' = "400"
                  /\ UNCHANGED friends_table
             ELSE IF friend_resp = {}
             THEN /\ outcome = "ok"
                  /\ reply' = "404"
                  /\ UNCHANGED friends_table
             ELSE IF outcome = "ok"
             THEN /\ Len(friends_table) < MaxFriendRows
                  /\ friends_table' = Append(friends_table,
                         FriendRow(user_id, (CHOOSE p \in friend_resp : TRUE).id, nickname))
                  /\ reply' = "200"
             ELSE /\ reply' = "500"
                  /\ UNCHANGED friends_table
    /\ update' = [handler |-> "add_friend", arg |-> 0]
    /\ UNCHANGED <<coreVars, normVars, calls, tableVars, pending_txns, next_key, convVars,
                   sent, bot_possible_friends, deleting, confirm_ran, cancelled, settled>>

\* Who presses Accept, and whose request it is.  callback data with other
\* than three parts is refused.
Accepters == {Owner.telegram_id} \cup Strangers
Requesters == {"u2", "u3"}

\* accept_friend_callback, the entry point of friend_conv_handler: it is
\* taken only when the user is in no conversation.
accept_friend_callback ==
    /\ deleting = NoDelete
    /\ conversation = "END"
    /\ \E from_id \in Accepters, parts \in {2, 3}, requester_user_id \in Requesters :
         /\ update' = [handler |-> "accept_friend", arg |-> from_id]
         /\ IF parts # 3
            THEN /\ reply' = "invalid_format"
                 /\ UNCHANGED convVars
            ELSE /\ pending_friend_accept' =
                        [friend_record_id |-> 1, requester_user_id |-> requester_user_id,
                         chat_id |-> from_id]
                 /\ reply' = "ask_nickname"
                 /\ conversation' = "AWAITING_NICKNAME"
                 /\ accept_rows' = 0
                 /\ UNCHANGED last_text
    /\ UNCHANGED <<coreVars, normVars, calls, friends_table, tableVars, pending_txns, next_key,
                   sent, bot_possible_friends, deleting, confirm_ran, cancelled, settled>>

\* The texts the user answers with.
NicknameTexts == { <<" ">>, <<"Y", "o", "u">>, <<" ", "B", "o", "b", " ">> }

\* receive_nickname that takes the text as it is.
receive_nickname_unstripped ==
    /\ deleting = NoDelete
    /\ conversation = "AWAITING_NICKNAME"
    /\ \E from_id \in Accepters, text \in NicknameTexts, outcome \in InsertOutcomes :
         LET nickname == Str(text)
             accepter_profile == get_profile_by_telegram_id(from_id)
         IN  /\ pending_friend_accept # NoPending => from_id = pending_friend_accept.chat_id
             /\ update' = [handler |-> "receive_nickname", arg |-> from_id]
             /\ last_text' = text
             /\ IF outcome \in {"ok", "raises_after"} /\ pending_friend_accept # NoPending
                   /\ accepter_profile # NoProfile
                THEN /\ Len(friends_table) < MaxFriendRows
                     /\ friends_table' = Append(friends_table,
                            FriendRow(accepter_profile.id,
                                      pending_friend_accept.requester_user_id, nickname))
                     /\ accept_rows' = accept_rows + 1
                     /\ reply' = IF outcome = "ok" THEN "established" ELSE "error"
                     /\ pending_friend_accept' =
                            IF outcome = "ok" THEN NoPending ELSE pending_friend_accept
                ELSE /\ reply' = "error"
                     /\ UNCHANGED <<friends_table, pending_friend_accept, accept_rows>>
             /\ conversation' = "END"
    /\ UNCHANGED <<coreVars, normVars, calls, tableVars, pending_txns, next_key,
                   sent, bot_possible_friends, deleting, confirm_ran, cancelled, settled>>

\* receive_nickname: a text that is no command, while the user's conversation
\* is in state AWAITING_NICKNAME.  The notices it sends carry no button.
receive_nickname ==
    /\ deleting = NoDelete
    /\ conversation = "AWAITING_NICKNAME"
    /\ \E from_id \in Accepters, text \in NicknameTexts, outcome \in InsertOutcomes :
         LET nickname == Str(strip(text))
             accepter_profile == get_profile_by_telegram_id(from_id)
         IN  /\ pending_friend_accept # NoPending => from_id = pending_friend_accept.chat_id
             /\ update' = [handler |-> "receive_nickname", arg |-> from_id]
             /\ last_text' = text
             /\ IF nickname = ""
                THEN /\ outcome = "ok"
                     /\ reply' = "provide_valid_nickname"
                     /\ UNCHANGED <<friends_table, pending_friend_accept, conversation,
                                    accept_rows>>
                ELSE IF pending_friend_accept = NoPending
                THEN /\ outcome = "ok"
                     /\ reply' = "expired"
                     /\ conversation' = "END"
                     /\ UNCHANGED <<friends_table, pending_friend_accept, accept_rows>>
                ELSE IF accepter_profile = NoProfile
                THEN /\ outcome = "ok"
                     /\ reply' = "no_profile"
                     /\ conversation' = "END"
                     /\ UNCHANGED <<friends_table, pending_friend_accept, accept_rows>>
                ELSE IF outcome \in {"ok", "raises_after"}
                THEN /\ Len(friends_table) < MaxFriendRows
                     /\ friends_table' = Append(friends_table,
                            FriendRow(accepter_profile.id,
                                      pending_friend_accept.requester_user_id, nickname))
                     /\ accept_rows' = accept_rows + 1
                     /\ reply' = IF outcome = "ok" THEN "established" ELSE "error"
                     /\ pending_friend_accept' =
                            IF outcome = "ok" THEN NoPending ELSE pending_friend_accept
                     /\ conversation' = "END"
                ELSE /\ reply' = IF outcome = "no_data" THEN "failed" ELSE "error"
                     /\ conversation' = "END"
                     /\ UNCHANGED <<friends_table, pending_friend_accept, accept_rows>>
    /\ UNCHANGED <<coreVars, normVars, calls, tableVars, pending_txns, next_key,
                   sent, bot_possible_friends, deleting, confirm_ran, cancelled, settled>>

\* cancel_nickname: /cancel, a fallback of friend_conv_handler, is taken only
\* inside the conversation.
cancel_nickname ==
    /\ deleting = NoDelete
    /\ conversation = "AWAITING_NICKNAME"
    /\ update' = [handler |-> "cancel_nickname", arg |-> 0]
    /\ reply' = "cancelled"
    /\ pending_friend_accept' = NoPending
    /\ conversation' = "END"
    /\ UNCHANGED <<coreVars, normVars, calls, friends_table, tableVars, pending_txns, next_key,
                   accept_rows, last_text,
                   sent, bot_possible_friends, deleting, confirm_ran, cancelled, settled>>

\* The bot and the server from an empty table friends.
InitFriends ==
    /\ pc = "idle"
    /\ input_type = PyNone
    /\ input_data = PyStr(<<>>)
    /\ possible_friends = <<>>
    /\ env_key = "envk"
    /\ _API_KEY = env_key
    /\ request = NoRequest
    /\ invocations = 0
    /\ response = NoResponse
    /\ result = NoResult
    /\ error = NoError
    /\ norm_pc = "ready"
    /\ norm_in = <<>>
    /\ norm_out = <<>>
    /\ calls = NoCalls
    /\ BotStart(<<>>)

NextFriends ==
    \/ add_friend
    \/ accept_friend_callback
    \/ receive_nickname
    \/ cancel_nickname
    \/ handle_input

SpecFriends == InitFriends /\ [][NextFriends]_vars

-----------------------------------------------------------------------------
(* Claims about recording, confirming, rejecting and settling              *)

\* Rows by what they belong to.
RowsOf(key) == {t \in transactions : t.origin[1] = key}
ParticipantsOf(transaction_id) ==
    {p \in transaction_participants : p.transaction_id = transaction_id}
ItemsOf(participant_id) == {i \in transaction_items : i.participant_id = participant_id}

\* Every item refers to a participant row and every participant to a
\* transactions row.
RowsLinked ==
    /\ \A i \in transaction_items :
          \E p \in transaction_participants : p.id = i.participant_id
    /\ \A p \in transaction_participants :
          \E t \in transactions : t.id = p.transaction_id

\* confirm_all_callback has just run for a batch it found pending.
JustConfirmed ==
    /\ update.handler = "confirm_all"
    /\ reply \in {"recorded", "error"}

\* C23: whatever confirm_all and cancel_all callbacks arrive for a batch
\* key, the table transactions holds at most one row for each transaction
\* of the batch.
C23_AtMostOnce ==
    \A t1, t2 \in transactions : t1.origin = t2.origin => t1 = t2

\* C24: handle_input stores the batch as pending data and creates no row;
\* every transactions row belongs to a batch whose key confirm_all has run
\* for, and participants and items exist only under such rows.
C24_ConfirmationPrecedesPersistence ==
    /\ \A t \in transactions : t.origin[1] \in confirm_ran
    /\ RowsLinked
    /\ update.handler = "handle_input" /\ update.arg # 0 =>
          /\ update.arg \in DOMAIN pending_txns
          /\ update.arg \notin confirm_ran
          /\ RowsOf(update.arg) = {}

\* handle_input has stored a batch and the tables are still empty.
C24_Witness ==
    /\ update.handler = "handle_input"
    /\ update.arg \in DOMAIN pending_txns
    /\ Len(pending_txns[update.arg].transactions) = 2
    /\ transactions = {} /\ transaction_participants = {} /\ transaction_items = {}

\* C25: after cancel_all for a key the pending entry is gone for good; a
\* later confirm_all for that key answers that the data expired and leaves
\* tables, pending data and notifications as they are; cancel_all for a key
\* with no pending entry leaves them as they are, too.
C25_CancellationFinal ==
    [][ /\ \A key \in cancelled' : key \notin DOMAIN pending_txns'
        /\ update'.handler = "confirm_all" /\ update'.arg \in cancelled =>
              /\ reply' = "expired"
              /\ UNCHANGED <<tableVars, pending_txns, sent, confirm_ran>>
        /\ update'.handler = "cancel_all" /\ update'.arg \notin DOMAIN pending_txns =>
              UNCHANGED <<tableVars, pending_txns, next_key, sent, confirm_ran,
                          friends_table, pending_friend_accept, conversation>>
      ]_vars

\* Confirm All was pressed for a cancelled batch.
C25_Witness ==
    /\ update.handler = "confirm_all"
    /\ update.arg \in cancelled
    /\ reply = "expired"
    /\ transactions = {}

\* C26: after confirm_all, each transaction of the batch has either all of
\* its rows (one transactions row, one participant linked to it, one item
\* linked to the participant) or none.
C26_AllOrNothing ==
    JustConfirmed =>
        \A t \in RowsOf(update.arg) :
            /\ Cardinality(ParticipantsOf(t.id)) = 1
            /\ \A p \in ParticipantsOf(t.id) : Cardinality(ItemsOf(p.id)) = 1

\* C27: after confirm_all, for each inserted transaction of the batch the
\* payer and the payee have been notified exactly if they have a Telegram id
\* other than the creator's; the creator is never notified.
C27_PartiesNotified ==
    /\ \A n \in sent : n.chat_id # Owner.telegram_id
    /\ JustConfirmed =>
          \A t \in RowsOf(update.arg) : \A p \in ParticipantsOf(t.id) :
             \A party \in {p.payer_id, p.payee_id} :
                LET telegram_id == get_telegram_id_from_profile_id(party)
                IN  [chat_id |-> telegram_id, transaction_id |-> t.id] \in sent
                      <=> telegram_id # 0 /\ telegram_id # Owner.telegram_id

\* C28: while delete_transaction runs and afterwards, no item refers to a
\* deleted participant and no participant to a deleted transaction; once it
\* has returned True, no row of the transaction is left.
C28_ChildFirst ==
    /\ RowsLinked
    /\ deleting # NoDelete /\ deleting.stage # "transaction_items" =>
          \A p \in ParticipantsOf(deleting.transaction_id) : ItemsOf(p.id) = {}
    /\ update.handler = "reject_txn" /\ reply = "rejected" =>
          /\ \A t \in transactions : t.id # update.arg
          /\ ParticipantsOf(update.arg) = {}

\* delete_transaction has deleted the items and the participant of a
\* transaction and is about to delete its transactions row.
C28_Witness ==
    /\ deleting # NoDelete
    /\ deleting.stage = "transactions"
    /\ \E t \in transactions : t.id = deleting.transaction_id
    /\ ParticipantsOf(deleting.transaction_id) = {}

\* C29: a participant row is pending until settle has succeeded for it and
\* paid ever after; no step takes a paid row back to pending; the settlements
\* listing of a user holds no settled row; settle for an id that no row has
\* reports failure and changes nothing.
C29_SettlementMonotonic ==
    [][ /\ \A p \in transaction_participants' :
              p.status = IF p.id \in settled' THEN "paid" ELSE "pending"
        /\ \A p \in transaction_participants, q \in transaction_participants' :
              p.id = q.id /\ p.status = "paid" => q.status = "paid"
        /\ \A u \in Profiles : \A p \in settlements(u.id)' : p.id \notin settled'
        /\ update'.handler = "settle" /\ deleting' = deleting
              /\ (\A p \in transaction_participants : p.id # update'.arg) =>
              /\ reply' = "settle_failed"
              /\ UNCHANGED <<tableVars, pending_txns, sent, settled>>
      ]_vars

\* A row has been settled: it is paid and in nobody's settlements listing.
C29_Witness ==
    /\ update.handler = "settle" /\ reply = "settled"
    /\ \E p \in transaction_participants :
          p.id = update.arg /\ p.status = "paid" /\ p \notin settlements(p.payer_id)

-----------------------------------------------------------------------------
(* Claims about friends and the nickname conversation                      *)

\* C21: the list the bot passes to the core on a request holds the name
\* "You" and no name twice, whatever friends rows add_friend and
\* receive_nickname have created for the owner.
C21_DistinctWithYou ==
    bot_possible_friends # <<>> =>
        /\ \E k \in DOMAIN bot_possible_friends : bot_possible_friends[k] = "You"
        /\ \A i, j \in DOMAIN bot_possible_friends :
              i # j => bot_possible_friends[i] # bot_possible_friends[j]

\* C30: a bot handler inserts a friends row only in receive_nickname, while
\* the conversation is in AWAITING_NICKNAME, for a text that is not empty once
\* trimmed; the row is accepter -> requester with the trimmed nickname, the
\* conversation ends, and no acceptance gets a second row.  A text of
\* whitespace only keeps the conversation in AWAITING_NICKNAME and inserts
\* nothing; /cancel clears the pending request, ends the conversation and
\* inserts nothing.
C30_NicknameConversation ==
    [][ /\ (update'.handler # "add_friend" /\ friends_table' # friends_table) =>
              /\ update'.handler = "receive_nickname"
              /\ conversation = "AWAITING_NICKNAME"
              /\ strip(last_text') # <<>>
              /\ pending_friend_accept # NoPending
              /\ friends_table' = Append(friends_table,
                     FriendRow(get_profile_by_telegram_id(pending_friend_accept.chat_id).id,
                               pending_friend_accept.requester_user_id,
                               Str(strip(last_text'))))
              /\ conversation' = "END"
        /\ accept_rows' <= 1
        /\ (update'.handler = "receive_nickname" /\ strip(last_text') = <<>>) =>
              /\ conversation' = "AWAITING_NICKNAME"
              /\ friends_table' = friends_table
        /\ update'.handler = "cancel_nickname" =>
              /\ pending_friend_accept' = NoPending
              /\ conversation' = "END"
              /\ friends_table' = friends_table
      ]_vars

\* The owner accepted a request and answered " Bob ": the row is there under
\* the nickname "Bob" and the conversation is over.
C30_Witness ==
    /\ update.handler = "receive_nickname"
    /\ last_text = <<" ", "B", "o", "b", " ">>
    /\ reply = "established"
    /\ conversation = "END"
    /\ accept_rows = 1
    /\ friends_table # <<>>
    /\ friends_table[Len(friends_table)].nickname = "Bob"
    /\ friends_table[Len(friends_table)].user_id = Owner.id

=============================================================================
